---- MODULE Spec2Model ----
(***************************************************************************)
(* Model of atc/db/resource_config.go: resolution of ResourceConfig rows   *)
(* (ResourceConfigDescriptor.findOrCreate) and of ResourceConfigScope rows *)
(* (resourceConfig.FindOrCreateScope / findOrCreateResourceConfigScope)    *)
(* by concurrent callers, each inside its own store transaction.           *)
(*                                                                         *)
(* The store is PostgreSQL at its default isolation level (READ            *)
(* COMMITTED): every statement sees the rows committed when it starts      *)
(* plus the writes of its own transaction; a row written by a transaction  *)
(* stays locked until that transaction ends; INSERT .. ON CONFLICT waits   *)
(* for an in-flight transaction that holds the conflicting key.            *)
(*                                                                         *)
(* Spec           runs findOrCreate and updateLastReferenced on an empty   *)
(*                store.                                                   *)
(* ScopeSpec      runs FindOrCreateScope on a store that holds resolved    *)
(*                configs of base resource types.                          *)
(* CacheScopeSpec runs FindOrCreateScope on a store that holds a config    *)
(*                created by a resource cache.                             *)
(* NilScopeSpec   runs FindOrCreateScope with and without a resource.      *)
(* CollectorSpec  runs FindOrCreateScope beside the external collector,    *)
(*                which deletes configs; it is in none of the others.      *)
(***************************************************************************)
EXTENDS Integers, FiniteSets, Sequences, TLC

\* ------------------------------------------------------------------ bounds
\* Transactions begun in one behaviour.
MaxCalls == 3
\* Ticks of the store's clock.
MaxTime == 2
\* FindOrCreateScope transactions begun in one behaviour.
MaxScopeCalls == 3

\* ------------------------------------------------------------- the world
Callers == {"t1", "t2", "t3"}
\* The callers that run FindOrCreateScope.
ScopeCallers == {"t1", "t2"}
Resources == {"r1", "r2"}
Sources == {"s1", "s2"}

Nil == "nil"
NULL == "NULL"
COMMITTED == "committed"

\* Go's nil *UsedBaseResourceType.
NoBaseResourceType == [ID |-> Nil, Name |-> Nil, UniqueVersionHistory |-> FALSE]

\* The base_resource_types table, provisioned by worker registration.
BaseResourceTypes ==
    { [ID |-> "b1", Name |-> "git",  UniqueVersionHistory |-> FALSE],
      [ID |-> "b2", Name |-> "time", UniqueVersionHistory |-> TRUE] }

\* Names a descriptor may carry in CreatedByBaseResourceType; "ghost" is not
\* registered.
BaseResourceTypeNames == {"git", "time", "ghost"}

\* The resource caches known to the store, each with the in-memory
\* ResourceConfig() of the cache: k1 and k3 are backed by a base type, k2 by
\* cache k1.
ResourceCaches == {"k1", "k2", "k3"}

ResourceCacheConfig(k) ==
    CASE k = "k1" -> [createdByResourceCache |-> Nil,
                      createdByBaseResourceType |->
                          [ID |-> "b2", Name |-> "time", UniqueVersionHistory |-> TRUE]]
      [] k = "k2" -> [createdByResourceCache |-> "k1",
                      createdByBaseResourceType |-> NoBaseResourceType]
      [] OTHER    -> [createdByResourceCache |-> Nil,
                      createdByBaseResourceType |->
                          [ID |-> "b1", Name |-> "git", UniqueVersionHistory |-> FALSE]]

\* ResourceConfigDescriptor: exactly one of the two origins is set.
Descriptor(k, n, s) ==
    [CreatedByResourceCache |-> k, CreatedByBaseResourceType |-> n, Source |-> s]

\* The descriptors callers resolve.
Descriptors ==
    { Descriptor(Nil, "time", s) : s \in Sources }
    \cup
    { Descriptor(Nil, "git", "s1"), Descriptor(Nil, "ghost", "s1"),
      Descriptor("k1", Nil, "s1"), Descriptor("k2", Nil, "s1") }

NoDescriptor == [CreatedByResourceCache |-> Nil, CreatedByBaseResourceType |-> Nil, Source |-> Nil]

\* The digest of a source map.
mapHash(source) ==
    CASE source = "s1" -> "h1"
      [] source = "s2" -> "h2"
      [] OTHER         -> "h0"

\* The column default of resource_configs.last_referenced (the epoch).
DefaultLastReferenced == 0

\* ------------------------------------------------------------------ state
VARIABLES
    resource_configs,        \* rows of the resource_configs table
    resource_config_scopes,  \* rows of the resource_config_scopes table
    nextConfigID,            \* the id sequence of resource_configs
    nextScopeID,             \* the id sequence of resource_config_scopes
    EnableGlobalResources,   \* atc.EnableGlobalResources
    now,                     \* the store's clock
    calls,                   \* transactions begun so far
    pc,                      \* where each caller is
    rc,                      \* the *resourceConfig of each caller's call in progress
    frame,                   \* each caller's locals
    err,                     \* what each caller's last call returned as error
    configsReturned,         \* what committed findOrCreate calls returned
    scopesReturned           \* what committed FindOrCreateScope calls returned

vars == << resource_configs, resource_config_scopes, nextConfigID, nextScopeID,
           EnableGlobalResources, now, calls, pc, rc, frame, err,
           configsReturned, scopesReturned >>

\* &resourceConfig{lockFactory: lockFactory, conn: conn}
NewResourceConfig ==
    [id |-> 0, lastReferenced |-> 0,
     createdByResourceCache |-> Nil,
     createdByBaseResourceType |-> NoBaseResourceType]

NoFrame ==
    [desc |-> NoDescriptor, parentColumnName |-> "", parentID |-> Nil,
     resource |-> Nil, uniqueResource |-> Nil, enabled |-> FALSE,
     pending |-> {}, scopeID |-> 0, txTime |-> 0, touched |-> FALSE, path |-> "",
     prior |-> {}, configGone |-> FALSE]

NoError == [kind |-> "none", Name |-> Nil]
BaseResourceTypeNotFoundError(name) == [kind |-> "BaseResourceTypeNotFoundError", Name |-> name]
StoreFailure == [kind |-> "store", Name |-> Nil]
\* The store's error for an insert whose resource_config_id names no row.
ForeignKeyViolation == [kind |-> "store", Name |-> "foreign_key_violation"]
ErrResourceConfigDisappeared == [kind |-> "ErrResourceConfigDisappeared", Name |-> Nil]

Init ==
    /\ resource_configs = {}
    /\ resource_config_scopes = {}
    /\ nextConfigID = 1
    /\ nextScopeID = 1
    /\ EnableGlobalResources = FALSE
    /\ now = 0
    /\ calls = 0
    /\ pc = [p \in Callers |-> "idle"]
    /\ rc = [p \in Callers |-> NewResourceConfig]
    /\ frame = [p \in Callers |-> NoFrame]
    /\ err = [p \in Callers |-> NoError]
    /\ configsReturned = {}
    /\ scopesReturned = {}

\* ------------------------------------------------------- the transactions
\* resourceConfig.CreatedByBaseResourceType()
CreatedByBaseResourceType(r) == r.createdByBaseResourceType

\* An origin that looks no further than the config of the creating cache.
OriginOfParentOnly(r) ==
    IF r.createdByBaseResourceType # NoBaseResourceType
    THEN r.createdByBaseResourceType
    ELSE ResourceCacheConfig(r.createdByResourceCache).createdByBaseResourceType

\* resourceConfig.OriginBaseResourceType()
RECURSIVE OriginBaseResourceType(_)
OriginBaseResourceType(r) ==
    IF r.createdByBaseResourceType # NoBaseResourceType
    THEN r.createdByBaseResourceType
    ELSE OriginBaseResourceType(ResourceCacheConfig(r.createdByResourceCache))

\* A row another in-flight transaction has written or locked.
LockedByOther(row, p) == row.lock \notin {Nil, p}

\* tx.Commit() as the store applies it: p's inserts become visible, the rows p
\* deleted go, p's row locks are released.
CommitRows(rows, p) ==
    { [r EXCEPT !.xmin = COMMITTED, !.lock = Nil] :
          r \in { x \in rows : x.xmin = p /\ x.xmax # p } }
    \cup
    { [r EXCEPT !.lock = IF r.lock = p THEN Nil ELSE r.lock] :
          r \in { x \in rows : x.xmin # p /\ x.xmax # p } }

\* Rollback(tx): p's inserts go, its deletes and row locks are undone.
RollbackRows(rows, p) ==
    { [r EXCEPT !.xmax = IF r.xmax = p THEN Nil ELSE r.xmax,
                !.lock = IF r.lock = p THEN Nil ELSE r.lock] :
          r \in { x \in rows : x.xmin # p } }

\* The rows a statement of p's transaction sees.
Visible(rows, p) == { r \in rows : r.xmin \in {COMMITTED, p} /\ r.xmax # p }

\* The rows that are committed (what a new transaction sees).
CommittedRows(rows) == { r \in rows : r.xmin = COMMITTED }

\* The caller's transaction begins; the caller hands a descriptor to
\* findOrCreate (lines 125-129).
BeginFindOrCreate(p, d) ==
    /\ pc[p] = "idle"
    /\ calls < MaxCalls
    /\ calls' = calls + 1
    /\ pc' = [pc EXCEPT ![p] = "origin"]
    /\ rc' = [rc EXCEPT ![p] = NewResourceConfig]
    /\ frame' = [frame EXCEPT ![p] = [NoFrame EXCEPT !.desc = d]]
    /\ err' = [err EXCEPT ![p] = NoError]
    /\ UNCHANGED << resource_configs, resource_config_scopes, nextConfigID, nextScopeID,
                    EnableGlobalResources, now, configsReturned, scopesReturned >>

\* BaseResourceType.Find(tx): the registered type of that name, if any.
FindBaseResourceType(name) == { b \in BaseResourceTypes : b.Name = name }

\* A lookup whose result is never tested.
BaseResourceTypeAlwaysFound(name) == TRUE

\* found, as line 156 tests it.
BaseResourceTypeFound(name) == FindBaseResourceType(name) # {}

\* findOrCreate, lines 131-161: resolve the parent.
ResolveOrigin(p) ==
    /\ pc[p] = "origin"
    /\ LET d == frame[p].desc IN
       IF d.CreatedByResourceCache # Nil
       THEN /\ rc' = [rc EXCEPT ![p].createdByResourceCache = d.CreatedByResourceCache]
            /\ frame' = [frame EXCEPT ![p].parentColumnName = "resource_cache_id",
                                      ![p].parentID = d.CreatedByResourceCache]
            /\ pc' = [pc EXCEPT ![p] = "find"]
            /\ UNCHANGED << err, resource_configs, resource_config_scopes >>
       ELSE IF ~BaseResourceTypeFound(d.CreatedByBaseResourceType)
       THEN \* return nil, BaseResourceTypeNotFoundError{Name: ...}; the caller rolls back
            /\ err' = [err EXCEPT ![p] = BaseResourceTypeNotFoundError(d.CreatedByBaseResourceType)]
            /\ rc' = [rc EXCEPT ![p] = NewResourceConfig]
            /\ frame' = [frame EXCEPT ![p] = NoFrame]
            /\ pc' = [pc EXCEPT ![p] = "idle"]
            /\ resource_configs' = RollbackRows(resource_configs, p)
            /\ resource_config_scopes' = RollbackRows(resource_config_scopes, p)
       ELSE LET types == FindBaseResourceType(d.CreatedByBaseResourceType)
                brt == IF types = {} THEN NoBaseResourceType ELSE CHOOSE b \in types : TRUE
            IN
            /\ rc' = [rc EXCEPT ![p].createdByBaseResourceType = brt]
            /\ frame' = [frame EXCEPT ![p].parentColumnName = "base_resource_type_id",
                                      ![p].parentID = brt.ID]
            /\ pc' = [pc EXCEPT ![p] = "find"]
            /\ UNCHANGED << err, resource_configs, resource_config_scopes >>
    /\ UNCHANGED << nextConfigID, nextScopeID, EnableGlobalResources, now, calls,
                    configsReturned, scopesReturned >>

\* The rows of resource_configs with parentColumnName = parentID and
\* source_hash = hash.
ConfigKeyRows(rows, col, parentID, hash) ==
    { r \in rows : /\ (IF col = "resource_cache_id"
                       THEN r.resource_cache_id
                       ELSE r.base_resource_type_id) = parentID
                   /\ r.source_hash = hash }

\* findWithParentID: SELECT id, last_referenced .. FOR UPDATE.
findWithParentID(p) ==
    /\ pc[p] = "find"
    /\ LET f == frame[p]
           found == ConfigKeyRows(Visible(resource_configs, p), f.parentColumnName,
                                  f.parentID, mapHash(f.desc.Source))
       IN IF found = {}
          THEN /\ pc' = [pc EXCEPT ![p] = "insert"]
               /\ UNCHANGED << rc, frame, resource_configs >>
          ELSE \E r \in found :
               /\ ~LockedByOther(r, p)
               /\ resource_configs' = (resource_configs \ {r}) \cup {[r EXCEPT !.lock = p]}
               /\ rc' = [rc EXCEPT ![p].id = r.id, ![p].lastReferenced = r.last_referenced]
               /\ frame' = [frame EXCEPT ![p].path = "found"]
               /\ pc' = [pc EXCEPT ![p] = "commit"]
    /\ UNCHANGED << resource_config_scopes, nextConfigID, nextScopeID, EnableGlobalResources,
                    now, calls, err, configsReturned, scopesReturned >>

\* The row INSERT INTO resource_configs (parentColumnName, source_hash) adds.
NewConfigRow(p, id, col, parentID, hash) ==
    [id |-> id,
     resource_cache_id |-> IF col = "resource_cache_id" THEN parentID ELSE NULL,
     base_resource_type_id |-> IF col = "resource_cache_id" THEN NULL ELSE parentID,
     source_hash |-> hash,
     last_referenced |-> DefaultLastReferenced,
     xmin |-> p, xmax |-> Nil, lock |-> p]

\* A conflict update that also stamps the row.
ConfigRowUpdatedAndStamped(r, p) == [r EXCEPT !.lock = p, !.last_referenced = r.last_referenced + 1]

\* ON CONFLICT (parentColumnName, source_hash) DO UPDATE SET parentColumnName
\* = ?, source_hash = ?: the row as the update leaves it, locked by p.
ConfigRowUpdated(r, p) == [r EXCEPT !.lock = p]

\* An arbiter that sees only what p's own snapshot shows.
ConflictingConfigRowsInSnapshot(p, col, parentID, hash) ==
    ConfigKeyRows(Visible(resource_configs, p), col, parentID, hash)

\* ON CONFLICT (parentColumnName, source_hash): the unique index arbitrates
\* over every row version that holds the key, committed or in flight.
ConflictingConfigRows(p, col, parentID, hash) ==
    ConfigKeyRows(resource_configs, col, parentID, hash)

\* findOrCreate, lines 168-192: INSERT .. ON CONFLICT .. DO UPDATE .. RETURNING
\* id, last_referenced.
InsertConfig(p) ==
    /\ pc[p] = "insert"
    /\ LET f == frame[p]
           hash == mapHash(f.desc.Source)
           same == ConflictingConfigRows(p, f.parentColumnName, f.parentID, hash)
       IN \* wait for an in-flight transaction that holds the key
          /\ \A r \in same : ~LockedByOther(r, p)
          /\ IF Visible(same, p) = {}
             THEN /\ resource_configs' = resource_configs \cup
                        {NewConfigRow(p, nextConfigID, f.parentColumnName, f.parentID, hash)}
                  /\ nextConfigID' = nextConfigID + 1
                  /\ rc' = [rc EXCEPT ![p].id = nextConfigID,
                                      ![p].lastReferenced = DefaultLastReferenced]
                  /\ frame' = [frame EXCEPT ![p].path = "inserted"]
             ELSE \E r \in Visible(same, p) :
                  /\ resource_configs' = (resource_configs \ {r}) \cup {ConfigRowUpdated(r, p)}
                  /\ nextConfigID' = nextConfigID
                  /\ rc' = [rc EXCEPT ![p].id = r.id,
                                      ![p].lastReferenced = ConfigRowUpdated(r, p).last_referenced]
                  /\ frame' = [frame EXCEPT ![p].path = "conflict"]
    /\ pc' = [pc EXCEPT ![p] = "commit"]
    /\ UNCHANGED << resource_config_scopes, nextScopeID, EnableGlobalResources, now, calls,
                    err, configsReturned, scopesReturned >>

\* findOrCreate returns rc (line 194) and the caller commits.
CommitFindOrCreate(p) ==
    /\ pc[p] = "commit"
    /\ resource_configs' = CommitRows(resource_configs, p)
    /\ resource_config_scopes' = CommitRows(resource_config_scopes, p)
    /\ configsReturned' = configsReturned \cup
           {[desc |-> frame[p].desc, id |-> rc[p].id, path |-> frame[p].path]}
    /\ frame' = [frame EXCEPT ![p] = NoFrame]
    /\ rc' = [rc EXCEPT ![p] = NewResourceConfig]
    /\ pc' = [pc EXCEPT ![p] = "idle"]
    /\ UNCHANGED << nextConfigID, nextScopeID, EnableGlobalResources, now, calls, err,
                    scopesReturned >>

\* A store operation of p's transaction fails: the error is returned and the
\* transaction is rolled back.
StoreError(p) ==
    /\ pc[p] \notin {"idle"}
    /\ resource_configs' = RollbackRows(resource_configs, p)
    /\ resource_config_scopes' = RollbackRows(resource_config_scopes, p)
    /\ err' = [err EXCEPT ![p] = StoreFailure]
    /\ rc' = [rc EXCEPT ![p] = NewResourceConfig]
    /\ frame' = [frame EXCEPT ![p] = NoFrame]
    /\ pc' = [pc EXCEPT ![p] = "idle"]
    /\ UNCHANGED << nextConfigID, nextScopeID, EnableGlobalResources, now, calls,
                    configsReturned, scopesReturned >>

\* An external collaborator that uses a config resolved earlier begins a
\* transaction; now() is the time the transaction starts.
BeginUse(p, id) ==
    /\ pc[p] = "idle"
    /\ \E e \in configsReturned : e.id = id
    /\ rc' = [rc EXCEPT ![p] = [NewResourceConfig EXCEPT !.id = id]]
    /\ calls < MaxCalls
    /\ calls' = calls + 1
    /\ \E t \in {now, now + 1} :
          /\ t <= MaxTime
          /\ now' = t
          /\ frame' = [frame EXCEPT ![p] = [NoFrame EXCEPT !.txTime = t]]
    /\ pc' = [pc EXCEPT ![p] = "touch"]
    /\ err' = [err EXCEPT ![p] = NoError]
    /\ UNCHANGED << resource_configs, resource_config_scopes, nextConfigID, nextScopeID,
                    EnableGlobalResources, configsReturned, scopesReturned >>

\* updateLastReferenced: UPDATE resource_configs SET last_referenced = now()
\* WHERE id = r.id RETURNING last_referenced. The new value is in the row
\* version p wrote, which the store makes current when p commits.
updateLastReferenced(p) ==
    /\ pc[p] = "touch"
    /\ LET rows == { r \in Visible(resource_configs, p) : r.id = rc[p].id } IN
       IF rows = {}
       THEN \* Scan returns sql.ErrNoRows; the caller rolls back
            /\ err' = [err EXCEPT ![p] = StoreFailure]
            /\ resource_configs' = RollbackRows(resource_configs, p)
            /\ frame' = [frame EXCEPT ![p] = NoFrame]
            /\ pc' = [pc EXCEPT ![p] = "idle"]
            /\ rc' = [rc EXCEPT ![p] = NewResourceConfig]
       ELSE \E r \in rows :
            /\ ~LockedByOther(r, p)
            /\ resource_configs' = (resource_configs \ {r}) \cup {[r EXCEPT !.lock = p]}
            /\ rc' = [rc EXCEPT ![p].lastReferenced = frame[p].txTime]
            /\ frame' = [frame EXCEPT ![p].touched = TRUE]
            /\ pc' = [pc EXCEPT ![p] = "touchCommit"]
            /\ UNCHANGED err
    /\ UNCHANGED << resource_config_scopes, nextConfigID, nextScopeID, EnableGlobalResources,
                    now, calls, configsReturned, scopesReturned >>

\* An UPDATE without its WHERE clause.
ApplyUpdatesWithoutWhere(rows, p) ==
    { IF frame[p].touched
      THEN [r EXCEPT !.last_referenced = frame[p].txTime]
      ELSE r : r \in rows }

\* The row versions p's UPDATE wrote become the current ones.
ApplyUpdates(rows, p) ==
    { IF frame[p].touched /\ r.id = rc[p].id /\ r.lock = p
      THEN [r EXCEPT !.last_referenced = frame[p].txTime]
      ELSE r : r \in rows }

\* The collaborator commits.
CommitUse(p) ==
    /\ pc[p] = "touchCommit"
    /\ resource_configs' = CommitRows(ApplyUpdates(resource_configs, p), p)
    /\ frame' = [frame EXCEPT ![p] = NoFrame]
    /\ rc' = [rc EXCEPT ![p] = NewResourceConfig]
    /\ pc' = [pc EXCEPT ![p] = "idle"]
    /\ UNCHANGED << resource_config_scopes, nextConfigID, nextScopeID, EnableGlobalResources,
                    now, calls, err, configsReturned, scopesReturned >>

Next ==
    \/ \E p \in Callers, d \in Descriptors : BeginFindOrCreate(p, d)
    \/ \E p \in Callers : ResolveOrigin(p)
    \/ \E p \in Callers : findWithParentID(p)
    \/ \E p \in Callers : InsertConfig(p)
    \/ \E p \in Callers : CommitFindOrCreate(p)
    \/ \E p \in Callers, id \in 1..MaxCalls : BeginUse(p, id)
    \/ \E p \in Callers : updateLastReferenced(p)
    \/ \E p \in Callers : CommitUse(p)
    \/ \E p \in Callers : StoreError(p)

Spec == Init /\ [][Next]_vars

\* ------------------------------------------------------ scope resolution
\* Scope resolution reads resource_configs only through the identity of a
\* config resolved before, and config resolution never touches
\* resource_config_scopes. The scope specifications therefore start from a
\* store in which some descriptors have been resolved (each by one committed
\* findOrCreate, in the order given) and run the transactions of
\* FindOrCreateScope on the configs so resolved.

\* Two configs of a base type with unique version history, one of a base type
\* without.
ScopeDescriptors ==
    << Descriptor(Nil, "time", "s1"), Descriptor(Nil, "time", "s2"),
       Descriptor(Nil, "git", "s1") >>

\* A config created by a resource cache whose own config was created by the
\* base type with unique version history, and a config of that base type.
CacheScopeDescriptors ==
    << Descriptor("k1", Nil, "s1"), Descriptor(Nil, "time", "s1") >>

\* The row findOrCreate inserted for the i-th descriptor of ds, committed.
ResolvedConfigRow(ds, i) ==
    LET d == ds[i]
        col == IF d.CreatedByResourceCache # Nil
               THEN "resource_cache_id" ELSE "base_resource_type_id"
        parentID == IF d.CreatedByResourceCache # Nil
                    THEN d.CreatedByResourceCache
                    ELSE (CHOOSE b \in FindBaseResourceType(d.CreatedByBaseResourceType) : TRUE).ID
    IN [NewConfigRow("t1", i, col, parentID, mapHash(d.Source))
            EXCEPT !.xmin = COMMITTED, !.lock = Nil]

\* The *resourceConfig findOrCreate returns for a row x of resource_configs:
\* the row's id and last_referenced, and the origin that names the row.
ConfigOfRow(x) ==
    [id |-> x.id, lastReferenced |-> x.last_referenced,
     createdByResourceCache |->
         IF x.resource_cache_id # NULL THEN x.resource_cache_id ELSE Nil,
     createdByBaseResourceType |->
         IF x.base_resource_type_id # NULL
         THEN CHOOSE b \in BaseResourceTypes : b.ID = x.base_resource_type_id
         ELSE NoBaseResourceType]

\* The configs a caller can hold: those of the committed rows.
ResolvedConfigs == { ConfigOfRow(x) : x \in CommittedRows(resource_configs) }

ScopeInitWith(ds) ==
    /\ resource_configs = { ResolvedConfigRow(ds, i) : i \in DOMAIN ds }
    /\ resource_config_scopes = {}
    /\ nextConfigID = Len(ds) + 1
    /\ nextScopeID = 1
    /\ EnableGlobalResources = FALSE
    /\ now = 0
    /\ calls = 0
    /\ pc = [p \in Callers |-> "idle"]
    /\ rc = [p \in Callers |-> NewResourceConfig]
    /\ frame = [p \in Callers |-> NoFrame]
    /\ err = [p \in Callers |-> NoError]
    /\ configsReturned = {}
    /\ scopesReturned = {}

ScopeInit == ScopeInitWith(ScopeDescriptors)

CacheScopeInit == ScopeInitWith(CacheScopeDescriptors)

\* atc.EnableGlobalResources is a variable of the process, set when the ATC
\* starts: it changes when the ATC is restarted with the feature flag changed,
\* and no call of the stopped process is in flight then.
RestartWithGlobalResources ==
    /\ \A p \in Callers : pc[p] = "idle"
    /\ EnableGlobalResources' = ~EnableGlobalResources
    /\ UNCHANGED << resource_configs, resource_config_scopes, nextConfigID, nextScopeID,
                    now, calls, pc, rc, frame, err, configsReturned, scopesReturned >>

\* A policy that is private whenever a resource is supplied.
UniqueAlways(r, resource, enabled) == resource # Nil

\* A policy that ignores the feature flag.
UniqueIgnoringFlag(r, resource, enabled) ==
    /\ resource # Nil
    /\ CreatedByBaseResourceType(r) # NoBaseResourceType
    /\ CreatedByBaseResourceType(r).UniqueVersionHistory

\* findOrCreateResourceConfigScope, lines 226-245: whether the scope is
\* private to the resource (uniqueResource and resourceID are set).
Unique(r, resource, enabled) ==
    /\ resource # Nil
    /\ IF ~enabled
       THEN TRUE
       ELSE IF CreatedByBaseResourceType(r) # NoBaseResourceType
            THEN CreatedByBaseResourceType(r).UniqueVersionHistory
            ELSE FALSE

\* The rows of resource_config_scopes with resource_id = resourceID (IS NULL
\* for a nil resourceID) and resource_config_id = configID.
ScopeKeyRows(rows, resourceID, configID) ==
    { x \in rows : x.resource_id = resourceID /\ x.resource_config_id = configID }

\* A scope row belongs to a config: resource_config_scopes.resource_config_id
\* references a row of resource_configs, which the store checks on insert.
ConfigRowExists(configID) ==
    \E c \in CommittedRows(resource_configs) : c.id = configID

\* The ids of the committed scope rows a resource owns (kept with each call,
\* as of its start, to state what the call found in the store; so is whether
\* the row of the call's config was gone then).
OwnedScopeIDs(resource) ==
    { x.id : x \in { y \in CommittedRows(resource_config_scopes) : y.resource_id = resource } }

\* A lookup that never finds the scope.
FoundScopesNever(p, resourceID, configID) == {}

\* SELECT id FROM resource_config_scopes WHERE resource_id = resourceID AND
\* resource_config_id = configID (lines 249-256): the rows p's statement sees.
FoundScopes(p, resourceID, configID) ==
    ScopeKeyRows(Visible(resource_config_scopes, p), resourceID, configID)

\* FindOrCreateScope begins its transaction and findOrCreateResourceConfigScope
\* runs to the end of its SELECT (lines 89-96, 226-271).
FindOrCreateScope(p, r, resource) ==
    /\ pc[p] = "idle"
    /\ calls < MaxScopeCalls
    /\ calls' = calls + 1
    /\ rc' = [rc EXCEPT ![p] = r]
    /\ err' = [err EXCEPT ![p] = NoError]
    /\ LET unique == Unique(r, resource, EnableGlobalResources)
           uniqueResource == IF unique THEN resource ELSE Nil
           resourceID == IF unique THEN resource ELSE NULL
           found == FoundScopes(p, resourceID, r.id)
           f == [NoFrame EXCEPT !.resource = resource,
                                !.uniqueResource = uniqueResource,
                                !.enabled = EnableGlobalResources,
                                !.prior = OwnedScopeIDs(resource),
                                !.configGone = ~ConfigRowExists(r.id)]
       IN IF found # {}
          THEN \E x \in found :
               /\ frame' = [frame EXCEPT ![p] = [f EXCEPT !.scopeID = x.id, !.path = "found"]]
               /\ pc' = [pc EXCEPT ![p] = "scopeCommit"]
          ELSE /\ frame' = [frame EXCEPT ![p] = f]
               /\ pc' = [pc EXCEPT ![p] = IF uniqueResource # Nil
                                          THEN "delete" ELSE "insertShared"]
    /\ UNCHANGED << resource_configs, resource_config_scopes, nextConfigID, nextScopeID,
                    EnableGlobalResources, now, configsReturned, scopesReturned >>

\* A delete of the private scopes of every resource.
OutdatedScopesOfAnyone(p) ==
    { x \in Visible(resource_config_scopes, p) : x.resource_id # NULL }

\* A delete limited to the rows of the config being resolved.
OutdatedScopesOfConfigOnly(p) ==
    { x \in Visible(resource_config_scopes, p) :
        x.resource_id = frame[p].resource /\ x.resource_config_id = rc[p].id }

\* DELETE FROM resource_config_scopes WHERE resource_id = resource.ID(): the
\* rows the statement's snapshot shows (lines 273-280).
OutdatedScopes(p) ==
    { x \in Visible(resource_config_scopes, p) : x.resource_id = frame[p].resource }

\* Lines 272-283: the DELETE starts; it will take each row its snapshot shows.
DeleteOutdatedScopes(p) ==
    /\ pc[p] = "delete"
    /\ LET targets == { x.id : x \in OutdatedScopes(p) } IN
       /\ frame' = [frame EXCEPT ![p].pending = targets]
       /\ pc' = [pc EXCEPT ![p] = IF targets = {} THEN "insertPrivate" ELSE "deleting"]
    /\ UNCHANGED << resource_configs, resource_config_scopes, nextConfigID, nextScopeID,
                    EnableGlobalResources, now, calls, rc, err, configsReturned,
                    scopesReturned >>

\* A delete run on the connection instead of the transaction: the rows are
\* gone when the statement ends.
DeletedRowVersionsAutocommit(rows, p) == {}

\* The versions of rows that p's DELETE leaves: marked deleted by p and locked
\* until p's transaction ends.
DeletedRowVersions(rows, p) == { [x EXCEPT !.xmax = p, !.lock = p] : x \in rows }

\* The DELETE takes one of its rows: it waits while another transaction holds
\* the row, skips a row that transaction deleted, and marks the row deleted
\* otherwise.
DeleteRow(p) ==
    /\ pc[p] = "deleting"
    /\ \E id \in frame[p].pending :
         LET rows == { x \in resource_config_scopes : x.id = id }
             left == frame[p].pending \ {id}
         IN /\ \A x \in rows : ~LockedByOther(x, p)
            /\ resource_config_scopes' =
                   (resource_config_scopes \ rows)
                       \cup DeletedRowVersions(rows, p)
            /\ frame' = [frame EXCEPT ![p].pending = left]
            /\ pc' = [pc EXCEPT ![p] = IF left = {} THEN "insertPrivate" ELSE "deleting"]
    /\ UNCHANGED << resource_configs, nextConfigID, nextScopeID, EnableGlobalResources,
                    now, calls, rc, err, configsReturned, scopesReturned >>

\* An insert run on the connection instead of the transaction: the row is
\* committed by the statement itself.
NewScopeRowAutocommit(p, id, resourceID, configID) ==
    [id |-> id, resource_id |-> resourceID, resource_config_id |-> configID,
     xmin |-> COMMITTED, xmax |-> Nil, lock |-> Nil]

\* The row INSERT INTO resource_config_scopes (resource_id, resource_config_id)
\* adds.
NewScopeRow(p, id, resourceID, configID) ==
    [id |-> id, resource_id |-> resourceID, resource_config_id |-> configID,
     xmin |-> p, xmax |-> Nil, lock |-> p]

\* An arbiter that sees only what p's own snapshot shows.
ConflictingScopeRowsInSnapshot(p, resourceID, configID) ==
    ScopeKeyRows(Visible(resource_config_scopes, p), resourceID, configID)

\* The partial unique indexes (resource_id, resource_config_id) WHERE
\* resource_id IS NOT NULL and (resource_config_id) WHERE resource_id IS NULL
\* arbitrate over every live row version that holds the key, committed or in
\* flight; a row p itself deleted is dead to p.
ConflictingScopeRows(p, resourceID, configID) ==
    { x \in ScopeKeyRows(resource_config_scopes, resourceID, configID) : x.xmax # p }

\* INSERT .. ON CONFLICT .. DO UPDATE .. RETURNING id into
\* resource_config_scopes, for the key (resourceID, configID). The error of a
\* failed insert is returned as it is (lines 296-298, 312-314) and the
\* transaction is rolled back.
UpsertScope(p, resourceID, configID) ==
    LET same == ConflictingScopeRows(p, resourceID, configID) IN
    \* wait for an in-flight transaction that holds the key
    /\ \A x \in same : ~LockedByOther(x, p)
    /\ IF Visible(same, p) # {}
       THEN \E x \in Visible(same, p) :
            /\ resource_config_scopes' =
                   (resource_config_scopes \ {x}) \cup {[x EXCEPT !.lock = p]}
            /\ nextScopeID' = nextScopeID
            /\ frame' = [frame EXCEPT ![p].scopeID = x.id, ![p].path = "conflict"]
            /\ pc' = [pc EXCEPT ![p] = "scopeCommit"]
            /\ UNCHANGED << rc, err >>
       ELSE IF ConfigRowExists(configID)
       THEN /\ resource_config_scopes' = resource_config_scopes \cup
                  {NewScopeRow(p, nextScopeID, resourceID, configID)}
            /\ nextScopeID' = nextScopeID + 1
            /\ frame' = [frame EXCEPT ![p].scopeID = nextScopeID, ![p].path = "inserted"]
            /\ pc' = [pc EXCEPT ![p] = "scopeCommit"]
            /\ UNCHANGED << rc, err >>
       ELSE /\ resource_config_scopes' = RollbackRows(resource_config_scopes, p)
            /\ nextScopeID' = nextScopeID
            /\ err' = [err EXCEPT ![p] = ForeignKeyViolation]
            /\ rc' = [rc EXCEPT ![p] = NewResourceConfig]
            /\ frame' = [frame EXCEPT ![p] = NoFrame]
            /\ pc' = [pc EXCEPT ![p] = "idle"]
    /\ UNCHANGED << resource_configs, nextConfigID, EnableGlobalResources, now, calls,
                    configsReturned, scopesReturned >>

\* Lines 285-299: the upsert of the private scope.
InsertPrivateScope(p) ==
    /\ pc[p] = "insertPrivate"
    /\ UpsertScope(p, frame[p].resource, rc[p].id)

\* A shared branch that writes the resource's id into resource_id.
InsertSharedScopeWithResourceID(p) ==
    /\ pc[p] = "insertShared"
    /\ UpsertScope(p, frame[p].resource, rc[p].id)

\* Lines 300-315: the upsert of the shared scope.
InsertSharedScope(p) ==
    /\ pc[p] = "insertShared"
    /\ UpsertScope(p, NULL, rc[p].id)

\* Lines 317-323 and 107-112: the scope is returned and the transaction
\* commits.
CommitFindOrCreateScope(p) ==
    /\ pc[p] = "scopeCommit"
    /\ resource_config_scopes' = CommitRows(resource_config_scopes, p)
    /\ scopesReturned' = scopesReturned \cup
           {[resource |-> frame[p].resource, config |-> rc[p],
             enabled |-> frame[p].enabled, path |-> frame[p].path,
             prior |-> frame[p].prior,
             scope |-> [id |-> frame[p].scopeID, resource |-> frame[p].uniqueResource]]}
    /\ frame' = [frame EXCEPT ![p] = NoFrame]
    /\ rc' = [rc EXCEPT ![p] = NewResourceConfig]
    /\ pc' = [pc EXCEPT ![p] = "idle"]
    /\ UNCHANGED << resource_configs, nextConfigID, nextScopeID, EnableGlobalResources,
                    now, calls, err, configsReturned >>

ScopeNext ==
    \/ \E p \in ScopeCallers, r \in ResolvedConfigs, resource \in Resources :
          FindOrCreateScope(p, r, resource)
    \/ \E p \in ScopeCallers : DeleteOutdatedScopes(p)
    \/ \E p \in ScopeCallers : DeleteRow(p)
    \/ \E p \in ScopeCallers : InsertPrivateScope(p)
    \/ \E p \in ScopeCallers : InsertSharedScope(p)
    \/ \E p \in ScopeCallers : CommitFindOrCreateScope(p)
    \/ \E p \in ScopeCallers : StoreError(p)
    \/ RestartWithGlobalResources

ScopeSpec == ScopeInit /\ [][ScopeNext]_vars

CacheScopeSpec == CacheScopeInit /\ [][ScopeNext]_vars

\* ------------------------------------------- scope resolution and collector
\* A config of a base type with unique version history and one of a base type
\* without.
PairScopeDescriptors ==
    << Descriptor(Nil, "time", "s1"), Descriptor(Nil, "git", "s1") >>

PairScopeInit == ScopeInitWith(PairScopeDescriptors)

\* The configs callers resolved before and still hold in memory, whether or
\* not their rows are still in the store.
HeldConfigs ==
    { ConfigOfRow(ResolvedConfigRow(PairScopeDescriptors, i)) : i \in DOMAIN PairScopeDescriptors }

\* The external collector deletes the row of a config and, with it, the scope
\* rows that belong to the config. It waits for the in-flight transactions that
\* hold the config row or one of those scope rows.
CollectConfig(id) ==
    /\ \E c \in CommittedRows(resource_configs) : c.id = id /\ c.lock = Nil
    /\ \A x \in resource_config_scopes :
          x.resource_config_id = id => (x.xmin = COMMITTED /\ x.lock = Nil)
    /\ resource_configs' = { c \in resource_configs : c.id # id }
    /\ resource_config_scopes' = { x \in resource_config_scopes : x.resource_config_id # id }
    /\ UNCHANGED << nextConfigID, nextScopeID, EnableGlobalResources, now, calls, pc, rc,
                    frame, err, configsReturned, scopesReturned >>

CollectorNext ==
    \/ \E p \in ScopeCallers, r \in HeldConfigs, resource \in Resources :
          FindOrCreateScope(p, r, resource)
    \/ \E p \in ScopeCallers : DeleteOutdatedScopes(p)
    \/ \E p \in ScopeCallers : DeleteRow(p)
    \/ \E p \in ScopeCallers : InsertPrivateScope(p)
    \/ \E p \in ScopeCallers : InsertSharedScope(p)
    \/ \E p \in ScopeCallers : CommitFindOrCreateScope(p)
    \/ \E p \in ScopeCallers : StoreError(p)
    \/ RestartWithGlobalResources
    \/ \E c \in HeldConfigs : CollectConfig(c.id)

CollectorSpec == PairScopeInit /\ [][CollectorNext]_vars

\* ------------------------------------- scope resolution without a resource
\* What a caller passes as resource: a resource, or nil.
OptionalResources == {"r1", Nil}

NilScopeNext ==
    \/ \E p \in ScopeCallers, r \in ResolvedConfigs, resource \in OptionalResources :
          FindOrCreateScope(p, r, resource)
    \/ \E p \in ScopeCallers : DeleteOutdatedScopes(p)
    \/ \E p \in ScopeCallers : DeleteRow(p)
    \/ \E p \in ScopeCallers : InsertPrivateScope(p)
    \/ \E p \in ScopeCallers : InsertSharedScope(p)
    \/ \E p \in ScopeCallers : CommitFindOrCreateScope(p)
    \/ \E p \in ScopeCallers : StoreError(p)
    \/ RestartWithGlobalResources

NilScopeSpec == PairScopeInit /\ [][NilScopeNext]_vars

\* -------------------------------------------------- scope resolution claims
\* C3: with global resources enabled and an owning resource supplied, the
\* returned scope is private to the resource exactly when the root base
\* resource type of the config, as OriginBaseResourceType() reaches it,
\* declares unique version history.
C3_PrivateIffOriginUnique ==
    \A e \in scopesReturned :
        (e.enabled /\ e.resource # Nil)
            => ((e.scope.resource = e.resource)
                    <=> OriginBaseResourceType(e.config).UniqueVersionHistory)

\* C4: in every committed state a resource owns at most one scope row.
C4_AtMostOneOwnedScope ==
    \A resource \in Resources :
        Cardinality({ x \in CommittedRows(resource_config_scopes) :
                        x.resource_id = resource }) <= 1

\* A call made with global resources enabled on a config created by a base
\* resource type that declares unique version history.
UniqueTypeCall(e) ==
    /\ e.enabled
    /\ e.resource # Nil
    /\ e.config.createdByBaseResourceType.UniqueVersionHistory

\* A call made with global resources enabled on a config created by a base
\* resource type that does not declare unique version history.
SharedTypeCall(e) ==
    /\ e.enabled
    /\ e.config.createdByBaseResourceType # NoBaseResourceType
    /\ ~e.config.createdByBaseResourceType.UniqueVersionHistory

\* C5: with global resources enabled and a base type with unique version
\* history, every call returns a scope private to its resource, two calls for
\* different resources and the same config return different scope ids, and
\* once a call that found no scope of its resource for its config (the
\* resource is switched to a new config) has committed, no scope row the
\* resource owned when the call began is in the table.
C5_UniqueTypePolicy ==
    \A e1 \in scopesReturned :
        UniqueTypeCall(e1)
            => /\ e1.scope.resource = e1.resource
               /\ \A e2 \in scopesReturned :
                     (UniqueTypeCall(e2) /\ e2.config.id = e1.config.id
                         /\ e2.resource # e1.resource)
                         => e2.scope.id # e1.scope.id
               /\ e1.path # "found"
                     => \A x \in resource_config_scopes : x.id \notin e1.prior

\* Two resources hold distinct private scopes of one config, and one of them
\* was then switched to another config while it owned its first scope.
C5_Witness ==
    \E e1, e2, e3 \in scopesReturned :
        /\ UniqueTypeCall(e1) /\ UniqueTypeCall(e2) /\ UniqueTypeCall(e3)
        /\ e1.config.id = e2.config.id
        /\ e1.resource # e2.resource
        /\ e3.resource = e1.resource
        /\ e3.config.id # e1.config.id
        /\ e1.scope.id \in e3.prior
        /\ e3.path = "inserted"

\* C6: a call for a resource that owned a private scope when the call began,
\* made when the policy is shared (global resources enabled, base type
\* without unique version history), returns another scope row and leaves none
\* of the scope rows the resource owned in the table.
C6_PolicySwitchRetires ==
    \A e \in scopesReturned :
        (SharedTypeCall(e) /\ e.resource # Nil /\ e.prior # {})
            => /\ e.scope.id \notin e.prior
               /\ \A x \in resource_config_scopes : x.id \notin e.prior

\* C7: with global resources disabled every call returns a scope private to
\* its resource, the row of that id is owned by the resource and belongs to
\* the config, and two calls for different resources and the same config
\* return different scope ids, whatever the base resource type.
C7_DisabledAlwaysPrivate ==
    \A e1 \in scopesReturned :
        (~e1.enabled /\ e1.resource # Nil)
            => /\ e1.scope.resource = e1.resource
               /\ \A x \in resource_config_scopes :
                     x.id = e1.scope.id
                         => /\ x.resource_id = e1.resource
                            /\ x.resource_config_id = e1.config.id
               /\ \A e2 \in scopesReturned :
                     (~e2.enabled /\ e2.config.id = e1.config.id
                         /\ e2.resource # e1.resource)
                         => e2.scope.id # e1.scope.id

\* With global resources disabled two resources hold distinct private scopes
\* of one config, for a base type with and for one without unique version
\* history.
C7_Witness ==
    \E e1, e2, e3 \in scopesReturned :
        /\ ~e1.enabled /\ ~e2.enabled /\ ~e3.enabled
        /\ e1.config.id = e2.config.id
        /\ e1.resource # e2.resource
        /\ ~e1.config.createdByBaseResourceType.UniqueVersionHistory
        /\ e3.config.createdByBaseResourceType.UniqueVersionHistory
        /\ \E x, y \in CommittedRows(resource_config_scopes) :
              x.id = e1.scope.id /\ y.id = e2.scope.id

\* C8: with global resources enabled and a base type without unique version
\* history every call returns a scope with no resource, whose committed row
\* has no owner and belongs to the config, and every two calls for the same
\* config return the same scope id, in any order and interleaving.
C8_SharedTypeShares ==
    \A e1 \in scopesReturned :
        SharedTypeCall(e1)
            => /\ e1.scope.resource = Nil
               /\ \E x \in CommittedRows(resource_config_scopes) :
                     /\ x.id = e1.scope.id
                     /\ x.resource_id = NULL
                     /\ x.resource_config_id = e1.config.id
               /\ \A e2 \in scopesReturned :
                     (SharedTypeCall(e2) /\ e2.config.id = e1.config.id)
                         => e2.scope.id = e1.scope.id

\* Two resources resolved the shared scope of one config concurrently: one
\* inserted the row and the other's upsert hit the conflict.
C8_Witness ==
    \E e1, e2 \in scopesReturned :
        /\ SharedTypeCall(e1) /\ SharedTypeCall(e2)
        /\ e1.resource # Nil /\ e2.resource # Nil
        /\ e1.resource # e2.resource
        /\ e1.config.id = e2.config.id
        /\ e1.path = "inserted"
        /\ e2.path = "conflict"
        /\ e1.scope.id = e2.scope.id

\* C9: scope key uniqueness. The committed table holds at most one row
\* without owner per config and at most one row per (owner, config).
C9_ScopeKeyUnique ==
    \A x, y \in CommittedRows(resource_config_scopes) :
        (x.resource_config_id = y.resource_config_id /\ x.resource_id = y.resource_id)
            => x.id = y.id

\* A config has a shared scope and a private one, and two calls have raced on
\* one key: the second one's upsert hit the conflict.
C9_Witness ==
    /\ \E x, y \in CommittedRows(resource_config_scopes) :
          /\ x.resource_config_id = y.resource_config_id
          /\ x.resource_id = NULL
          /\ y.resource_id # NULL
    /\ \E e \in scopesReturned : e.path = "conflict"

\* ------------------------------------------------- config resolution claims
\* The committed rows of resource_configs a descriptor names: its parent
\* column holds the descriptor's origin and source_hash its source's digest.
RowsOfDescriptor(d) ==
    { r \in CommittedRows(resource_configs) :
        /\ r.source_hash = mapHash(d.Source)
        /\ IF d.CreatedByResourceCache # Nil
           THEN r.resource_cache_id = d.CreatedByResourceCache
           ELSE \E b \in BaseResourceTypes :
                   b.Name = d.CreatedByBaseResourceType /\ r.base_resource_type_id = b.ID }

\* C1: race convergence of config resolution. However the transactions of
\* findOrCreate interleave, the committed table holds exactly one row for the
\* (parent column, source hash) of every descriptor a committed call resolved,
\* and every committed call returned that row's id.
C1_RaceConvergence ==
    \A e \in configsReturned :
        /\ Cardinality(RowsOfDescriptor(e.desc)) = 1
        /\ \A r \in RowsOfDescriptor(e.desc) : r.id = e.id

\* Three calls raced on a descriptor with no row: all three found no row, one
\* inserted the row, and the upserts of the other two hit the conflict; two
\* have committed and the third is about to.
C1_Witness ==
    \E e1, e2 \in configsReturned :
        /\ e1.desc = e2.desc
        /\ e1.path = "inserted"
        /\ e2.path = "conflict"
        /\ e1.id = e2.id
        /\ \E p \in Callers :
              /\ pc[p] = "commit"
              /\ frame[p].desc = e1.desc
              /\ frame[p].path = "conflict"
              /\ rc[p].id = e1.id

\* C2: idempotent resolution. Every committed findOrCreate of a descriptor
\* returns the id the earlier ones returned, and a row's last_referenced
\* changes in no step but the commit of an updateLastReferenced of that row.
C2_Idempotent ==
    [][ /\ \A e1, e2 \in configsReturned' : e1.desc = e2.desc => e1.id = e2.id
        /\ \A r \in resource_configs : \A r2 \in resource_configs' :
              (r2.id = r.id /\ r2.last_referenced # r.last_referenced)
                  => \E p \in Callers : /\ pc[p] = "touchCommit"
                                       /\ pc'[p] = "idle"
                                       /\ frame[p].touched
                                       /\ rc[p].id = r.id ]_vars

\* A descriptor was resolved by an insert and again by the lookup, with the
\* same id, and the row has since been refreshed by updateLastReferenced.
C2_Witness ==
    \E e1, e2 \in configsReturned :
        /\ e1.desc = e2.desc
        /\ e1.path = "inserted"
        /\ e2.path = "found"
        /\ e1.id = e2.id
        /\ \E r \in CommittedRows(resource_configs) :
              r.id = e1.id /\ r.last_referenced > DefaultLastReferenced

\* The descriptor p is resolving names a base resource type the store lacks.
NamesUnknownBaseResourceType(p) ==
    /\ frame[p].desc.CreatedByResourceCache = Nil
    /\ \A b \in BaseResourceTypes : b.Name # frame[p].desc.CreatedByBaseResourceType

\* C10: unknown base type. A findOrCreate whose descriptor names a base
\* resource type that is not in the store ends at the lookup of the type: it
\* returns BaseResourceTypeNotFoundError carrying that name (or the error of
\* a lookup that itself failed), returns no config, and the step adds no row to
\* resource_configs or resource_config_scopes.
C10_UnknownBaseType ==
    [][ \A p \in Callers :
          (pc[p] = "origin" /\ NamesUnknownBaseResourceType(p) /\ pc'[p] # "origin")
              => /\ pc'[p] = "idle"
                 /\ err'[p] \in { [kind |-> "BaseResourceTypeNotFoundError",
                                    Name |-> frame[p].desc.CreatedByBaseResourceType],
                                   StoreFailure }
                 /\ rc'[p].id = 0
                 /\ resource_configs' = resource_configs
                 /\ resource_config_scopes' = resource_config_scopes
                 /\ configsReturned' = configsReturned ]_vars

\* A call has returned BaseResourceTypeNotFoundError for the unregistered
\* name while another caller's transaction is in flight.
C10_Witness ==
    \E p \in Callers :
        /\ pc[p] = "idle"
        /\ err[p] = [kind |-> "BaseResourceTypeNotFoundError", Name |-> "ghost"]
        /\ \E q \in Callers : pc[q] = "commit"

\* ------------------------------------------------ FindOrCreateScope claims
\* C11: FindOrCreateScope performs origin resolution, config resolution and
\* scope resolution inside its one transaction: when the call is about to
\* commit, its transaction has resolved the config row the scope is attached
\* to, so it holds that row (findOrCreate leaves the row it resolved written
\* or locked by the transaction that ran it).
C11_ConfigResolvedInTransaction ==
    \A p \in ScopeCallers :
        pc[p] = "scopeCommit"
            => \E x \in resource_configs : x.id = rc[p].id /\ x.lock = p

\* C11, amended: FindOrCreateScope runs scope resolution only, inside the one
\* transaction it begins and commits. No step of a call writes or locks a row
\* of resource_configs or changes the config the call was made on; the scope
\* row a call inserts carries the id of that config and is uncommitted until
\* the call commits, and the commit makes it committed under the same id.
C11_ScopeResolutionOnly ==
    [][ \A p \in ScopeCallers :
          /\ resource_configs' = resource_configs
          /\ \A x \in resource_configs' : x.lock # p
          /\ (pc[p] # "idle" /\ pc'[p] # "idle") => rc'[p] = rc[p]
          /\ (pc[p] \in {"insertPrivate", "insertShared"} /\ pc'[p] = "scopeCommit"
                 /\ frame'[p].path = "inserted")
                => \E x \in resource_config_scopes' \ resource_config_scopes :
                      /\ x.id = frame'[p].scopeID
                      /\ x.resource_config_id = rc[p].id
                      /\ x.xmin = p
          /\ (pc[p] = "scopeCommit" /\ pc'[p] = "idle" /\ err'[p] = NoError)
                => \A x \in resource_config_scopes :
                      (x.xmin = p /\ x.xmax # p)
                          => \E y \in resource_config_scopes' :
                                y.id = x.id /\ y.xmin = COMMITTED /\ y.lock = Nil ]_vars

\* A call is about to commit a scope row it inserted, still uncommitted, for
\* a config whose row no transaction holds.
C11_Witness ==
    \E p \in ScopeCallers :
        /\ pc[p] = "scopeCommit"
        /\ frame[p].path = "inserted"
        /\ \E x \in resource_config_scopes :
              x.id = frame[p].scopeID /\ x.xmin = p /\ x.resource_config_id = rc[p].id
        /\ \E c \in resource_configs : c.id = rc[p].id /\ c.lock = Nil

\* C12: when the collector has deleted the row of a config that a caller
\* resolved before, the FindOrCreateScope the caller runs on that config ends
\* with ErrResourceConfigDisappeared (or with the error of a store operation
\* that failed for another reason), neither with a success nor with the
\* store's own error for the missing row, and the table holds no scope row of
\* the deleted config afterwards.
C12_DisappearedSurfaced ==
    [][ \A p \in ScopeCallers :
          (pc[p] \in {"insertPrivate", "insertShared"} /\ pc'[p] # pc[p]
              /\ frame[p].configGone)
              => /\ pc'[p] = "idle"
                 /\ err'[p] \in {ErrResourceConfigDisappeared, StoreFailure}
                 /\ \A x \in resource_config_scopes' : x.resource_config_id # rc[p].id ]_vars

\* What a new transaction reads in a table of scope rows: the committed rows.
PersistedScopes(rows) ==
    { [id |-> x.id, resource_id |-> x.resource_id,
       resource_config_id |-> x.resource_config_id] : x \in CommittedRows(rows) }

\* C13: atomic retirement. The persisted scope rows change in no step but the
\* commit of a call; a call that ends without committing (a store operation
\* failed, at any point after the call began) leaves the persisted rows as
\* they were and nothing of its own behind; and the commit of a private
\* resolution that removes persisted rows leaves the row of the scope it
\* returns, owned by the resource and belonging to the config, persisted.
C13_AtomicRetirement ==
    [][ /\ PersistedScopes(resource_config_scopes') # PersistedScopes(resource_config_scopes)
            => \E p \in ScopeCallers : pc[p] = "scopeCommit" /\ pc'[p] = "idle"
                                       /\ err'[p] = NoError
        /\ \A p \in ScopeCallers :
              /\ (pc[p] # "idle" /\ pc'[p] = "idle" /\ err'[p] # NoError)
                    => /\ scopesReturned' = scopesReturned
                       /\ PersistedScopes(resource_config_scopes')
                              = PersistedScopes(resource_config_scopes)
                       /\ \A x \in resource_config_scopes' :
                             x.xmin # p /\ x.xmax # p /\ x.lock # p
              /\ (pc[p] = "scopeCommit" /\ pc'[p] = "idle" /\ err'[p] = NoError
                     /\ frame[p].uniqueResource # Nil
                     /\ PersistedScopes(resource_config_scopes)
                            \ PersistedScopes(resource_config_scopes') # {})
                    => [id |-> frame[p].scopeID, resource_id |-> frame[p].resource,
                        resource_config_id |-> rc[p].id]
                           \in PersistedScopes(resource_config_scopes') ]_vars

\* A call has deleted the scope its resource owned and inserted the new one,
\* neither committed yet, after a call of the other caller was rolled back.
C13_Witness ==
    \E p, q \in ScopeCallers :
        /\ pc[p] = "scopeCommit"
        /\ \E x, y \in resource_config_scopes :
              /\ x.xmin = COMMITTED /\ x.xmax = p
              /\ x.resource_id = frame[p].resource
              /\ y.xmin = p /\ y.id = frame[p].scopeID
              /\ y.resource_id = frame[p].resource
        /\ pc[q] = "idle" /\ err[q] = StoreFailure

\* C14: race convergence of private scope resolution. Calls that resolve the
\* private scope of one (resource, config) pair for the first time, each begun
\* while the resource owned no scope, return the same scope id once committed:
\* none is left with the id of a row that the delete-then-upsert of another
\* removed.
C14_PrivateRaceConvergence ==
    \A e1, e2 \in scopesReturned :
        ( /\ e1.resource # Nil
          /\ e1.resource = e2.resource
          /\ e1.scope.resource = e1.resource
          /\ e2.scope.resource = e2.resource
          /\ e1.config.id = e2.config.id
          /\ e1.prior = {} /\ e2.prior = {} )
            => e1.scope.id = e2.scope.id

\* -------------------------------------------------------- origin chain claim
\* c[1], .., c[n] is the chain of resource caches from a config's creating
\* cache down to base resource type b: the config of each cache was created
\* by the next cache, and that of the last one by b.
IsOriginChain(c, n, b) ==
    \A i \in 1..n :
        IF i < n
        THEN ResourceCacheConfig(c[i]).createdByResourceCache = c[i + 1]
        ELSE ResourceCacheConfig(c[i]).createdByBaseResourceType = b

\* C15: origin chain correctness. For every config findOrCreate has resolved,
\* OriginBaseResourceType() is the creating base resource type if the config
\* was created by one; if it was created by a resource cache, a chain of
\* caches leads from that cache to a base resource type, and
\* OriginBaseResourceType() is the base resource type at the end of every such
\* chain, however long.
C15_OriginChain ==
    \A p \in Callers :
        pc[p] = "commit"
            => IF rc[p].createdByBaseResourceType # NoBaseResourceType
               THEN OriginBaseResourceType(rc[p]) = rc[p].createdByBaseResourceType
               ELSE /\ \E n \in 1..Cardinality(ResourceCaches) :
                         \E c \in [1..n -> ResourceCaches], b \in BaseResourceTypes :
                             c[1] = rc[p].createdByResourceCache /\ IsOriginChain(c, n, b)
                    /\ \A n \in 1..Cardinality(ResourceCaches) :
                         \A c \in [1..n -> ResourceCaches], b \in BaseResourceTypes :
                             (c[1] = rc[p].createdByResourceCache /\ IsOriginChain(c, n, b))
                                 => OriginBaseResourceType(rc[p]) = b

\* A config created by cache k2, whose config was created by cache k1, whose
\* config was created by a base resource type, has been resolved, and so has
\* one created by a base resource type directly.
C15_Witness ==
    \E p, q \in Callers :
        /\ pc[p] = "commit"
        /\ rc[p].createdByResourceCache = "k2"
        /\ ResourceCacheConfig("k2").createdByResourceCache = "k1"
        /\ ResourceCacheConfig("k1").createdByBaseResourceType # NoBaseResourceType
        /\ pc[q] = "commit"
        /\ rc[q].createdByBaseResourceType # NoBaseResourceType

\* ------------------------------------------------------- found path claim
\* C16: the found path makes no writes. A call that begins when a scope row
\* for (the owning resource the policy gives, the config) is committed goes
\* straight to its commit with the id of that row, and neither that step nor
\* the end of the call (commit or rollback) changes resource_config_scopes:
\* no row is inserted, deleted or locked, whatever else the resource owns.
C16_FoundPathWritesNothing ==
    [][ \A p \in ScopeCallers :
          /\ (pc[p] = "idle" /\ pc'[p] # "idle")
                => LET resourceID == IF frame'[p].uniqueResource # Nil
                                     THEN frame'[p].resource ELSE NULL
                       matching == { x \in CommittedRows(resource_config_scopes) :
                                       /\ x.resource_id = resourceID
                                       /\ x.resource_config_id = rc'[p].id }
                   IN matching # {}
                         => /\ pc'[p] = "scopeCommit"
                            /\ frame'[p].path = "found"
                            /\ frame'[p].scopeID \in { x.id : x \in matching }
                            /\ resource_config_scopes' = resource_config_scopes
          /\ (pc[p] = "scopeCommit" /\ frame[p].path = "found" /\ pc'[p] = "idle")
                => /\ resource_config_scopes' = resource_config_scopes
                   /\ err'[p] = NoError
                         => \E e \in scopesReturned' :
                               e.path = "found" /\ e.scope.id = frame[p].scopeID ]_vars

\* A call has found the scope of its resource for its config while the
\* resource owns a scope of another config as well, and is about to commit.
C16_Witness ==
    \E p \in ScopeCallers :
        /\ pc[p] = "scopeCommit"
        /\ frame[p].path = "found"
        /\ frame[p].uniqueResource # Nil
        /\ \E x, y \in CommittedRows(resource_config_scopes) :
              /\ x.id = frame[p].scopeID
              /\ y.resource_id = x.resource_id
              /\ y.resource_config_id # x.resource_config_id

\* ------------------------------------------------------- freshness claims
\* C17: freshness refresh. Across any sequence of refreshes by
\* updateLastReferenced the last_referenced of a row never decreases.
C17_NeverDecreases ==
    [][ \A r \in resource_configs : \A r2 \in resource_configs' :
          r2.id = r.id => r2.last_referenced >= r.last_referenced ]_vars

\* C17, amended: updateLastReferenced sets last_referenced to now(), the time
\* its transaction started, and stores that value in the in-memory config.
\* That time is not earlier than the value persisted when the transaction
\* began; the commit makes the row's last_referenced equal to the in-memory
\* value, releases the row, and changes nothing else: every other column of
\* the row and every other row are as they were, and no row comes or goes.
C17_RefreshStampsTransactionTime ==
    [][ \A p \in Callers :
          /\ (pc[p] = "idle" /\ pc'[p] = "touch")
                => \A r \in CommittedRows(resource_configs) :
                      r.id = rc'[p].id => r.last_referenced <= frame'[p].txTime
          /\ (pc[p] = "touch" /\ pc'[p] = "touchCommit")
                => /\ rc'[p].lastReferenced = frame[p].txTime
                   /\ frame'[p].txTime = frame[p].txTime
                   /\ rc'[p].id = rc[p].id
                   /\ \A r \in resource_configs : \E r2 \in resource_configs' :
                         r2 = IF r.id = rc[p].id THEN [r EXCEPT !.lock = p] ELSE r
          /\ (pc[p] = "touchCommit" /\ pc'[p] = "idle" /\ err'[p] = NoError)
                => /\ \A r \in resource_configs : \E r2 \in resource_configs' :
                         r2 = IF r.id = rc[p].id
                              THEN [r EXCEPT !.last_referenced = rc[p].lastReferenced,
                                             !.lock = Nil]
                              ELSE r
                   /\ Cardinality(resource_configs') = Cardinality(resource_configs)
                   /\ resource_config_scopes' = resource_config_scopes ]_vars

\* Two refreshes of one row overlapped: the one that began later has
\* committed, and the one that began earlier holds the row and is about to
\* commit its earlier time.
C17_Witness ==
    \E p \in Callers :
        /\ pc[p] = "touchCommit"
        /\ \E r \in resource_configs :
              /\ r.id = rc[p].id
              /\ r.lock = p
              /\ r.last_referenced > rc[p].lastReferenced
              /\ rc[p].lastReferenced = frame[p].txTime

\* ------------------------------------------------ scope resolution frames
\* C18: frame of private-scope retirement. A row marked deleted or locked by
\* a call that resolves a private scope is owned by the resource of that call;
\* a call that resolves a shared scope marks no row deleted; and a committed
\* row leaves the table only in the commit of a private resolution by the
\* resource that owns the row. So no shared row and no row of another
\* resource is deleted or modified by a private resolution, and a shared
\* resolution deletes nothing.
C18_RetirementFrame ==
    [][ /\ \A x \in resource_config_scopes' :
              /\ x.xmax # Nil
                    => /\ frame'[x.xmax].uniqueResource # Nil
                       /\ x.resource_id = frame'[x.xmax].resource
              /\ (x.lock # Nil /\ frame'[x.lock].uniqueResource # Nil)
                    => x.resource_id = frame'[x.lock].resource
        /\ \A z \in PersistedScopes(resource_config_scopes)
                       \ PersistedScopes(resource_config_scopes') :
              \E p \in ScopeCallers :
                  /\ pc[p] = "scopeCommit" /\ pc'[p] = "idle" /\ err'[p] = NoError
                  /\ frame[p].uniqueResource # Nil
                  /\ z.resource_id = frame[p].resource ]_vars

\* A private resolution has deleted the scope its resource owned and inserted
\* the new one, while a committed row that is shared or owned by another
\* resource is in the table, untouched.
C18_Witness ==
    \E p \in ScopeCallers :
        /\ pc[p] = "scopeCommit"
        /\ frame[p].uniqueResource # Nil
        /\ \E x, y \in resource_config_scopes :
              /\ x.xmin = COMMITTED /\ x.xmax = p
              /\ x.resource_id = frame[p].resource
              /\ y.xmin = COMMITTED /\ y.xmax = Nil /\ y.lock = Nil
              /\ y.resource_id # frame[p].resource

\* C19: a call made with no resource (nil) resolves the shared scope of its
\* config, whatever the flag and whatever the base type declares: the scope it
\* returns has no resource, the committed row of that id has no owner and
\* belongs to the config, every such call on one config returns the same id,
\* and while it runs the call is never in the delete branch and marks no row
\* deleted.
C19_NilResourceShared ==
    /\ \A e1 \in scopesReturned :
          e1.resource = Nil
              => /\ e1.scope.resource = Nil
                 /\ \E x \in CommittedRows(resource_config_scopes) :
                       /\ x.id = e1.scope.id
                       /\ x.resource_id = NULL
                       /\ x.resource_config_id = e1.config.id
                 /\ \A e2 \in scopesReturned :
                       (e2.resource = Nil /\ e2.config.id = e1.config.id)
                           => e2.scope.id = e1.scope.id
    /\ \A p \in ScopeCallers :
          (pc[p] # "idle" /\ frame[p].resource = Nil)
              => /\ pc[p] \in {"insertShared", "scopeCommit"}
                 /\ \A x \in resource_config_scopes : x.xmax # p

\* Calls without a resource have committed with the flag enabled on a config
\* whose base type declares unique version history and with the flag
\* disabled, and another is about to commit on a config whose base type does
\* not declare it.
C19_Witness ==
    /\ \E e1, e2 \in scopesReturned :
          /\ e1.resource = Nil /\ e2.resource = Nil
          /\ e1.enabled /\ e1.config.createdByBaseResourceType.UniqueVersionHistory
          /\ ~e2.enabled
    /\ \E p \in ScopeCallers :
          /\ pc[p] = "scopeCommit"
          /\ frame[p].resource = Nil
          /\ ~rc[p].createdByBaseResourceType.UniqueVersionHistory

====
